---- MODULE Spec2Model ----
(***************************************************************************)
(* Image-hosting backend: ingestion pipeline (ImageService over the        *)
(* StorageService and the images collection) and download accounting       *)
(* (DownloadService over the images and downloads collections).            *)
(*                                                                         *)
(* Every request is a coroutine on one event loop (uvicorn, workers=1): a  *)
(* step of the model is the code a request runs from one await of an       *)
(* external service (the document database, the object store) to the next, *)
(* so a request begins with its first call and returns with its last.      *)
(* An external service answers a call or fails it; a failed call raises in *)
(* the caller.                                                             *)
(***************************************************************************)
EXTENDS Integers, Sequences, FiniteSets, Bags, TLC

\* ---------------------------------------------------------------- bounds
NumProcs == 2      \* requests that can be in flight at the same time
MaxOps == 4        \* requests made in one run

MaxDocs == 3       \* records of the store a listing starts from
MaxSkip == 2       \* largest skip of a listing
MaxLimit == 2      \* largest limit of a listing

Procs == 1..NumProcs

\* ---------------------------------------------------------------- values
None == <<>>
Some(v) == <<v>>
IsNone(o) == o = <<>>
Val(o) == o[1]

\* A well-formed ObjectId string that names no record, and a malformed one.
NoId == 0
BadId == 0 - 1

GCS_ORIGINAL_BUCKET == "originals"
GCS_THUMBNAIL_BUCKET == "thumbnails"

\* bson.ObjectId(image_id): raises InvalidId on a malformed string.
IsValidObjectId(id) == id # BadId

\* f"thumb_{filename}"
ThumbName(filename) == <<"thumb_", filename>>

\* f"https://storage.googleapis.com/{bucket}/{filename}"
PublicUrl(bucket, key) == <<"https://storage.googleapis.com", bucket, key>>

\* The uploaded files: bytes PIL can decode, and bytes it cannot.
Files ==
  { [content_type |-> "image/png", file_size |-> 1, decodable |-> TRUE],
    [content_type |-> "image/png", file_size |-> 1, decodable |-> FALSE] }

\* image_data of create_image, as the POST /images endpoint builds it.
CreateData ==
  { [name |-> "n0", description |-> "", tags |-> <<>>, is_featured |-> FALSE] }

\* image_data of update_image: a dict; a value of None is an absent update.
\* The first carries the fields of ImageUpdate, the second another key of the
\* document (the parameter is Dict[str, Any]).
Patches ==
  { [name |-> Some("n1"), description |-> None, tags |-> None, is_featured |-> None],
    [downloads |-> Some(0)] }

\* request_info of a download.
RequestInfo == [ip_address |-> "127.0.0.1", user_agent |-> "ua"]

\* image_data of the records a listing finds in the store.
ListData ==
  { [name |-> "n0", description |-> "", tags |-> t, is_featured |-> f] :
      t \in {<<>>, <<"a">>, <<"a", "b">>}, f \in BOOLEAN }

\* The query parameters of GET /images: skip, limit, tags and featured.
ListParams ==
  [skip : 0..MaxSkip,
   limit : 0..MaxLimit,
   tags : {None, Some(<<>>), Some(<<"a">>), Some(<<"b">>), Some(<<"a", "b">>)},
   featured : {None, Some(TRUE), Some(FALSE)}]

\* The widths and heights of the images given to resize_image, and the
\* max_size of a thumbnail.
Sizes == {1, 2, 3, 100, 150, 199, 200, 201, 250, 289, 300, 400, 1000}
ThumbnailSize == <<200, 200>>

\* str(e) of the exceptions the object store client and PIL raise.
ErrorTexts == {"e1", "e2"}

VARIABLES
  images,        \* db.images: _id -> document
  downloads,     \* db.downloads: bag of documents (the _id left out)
  origBucket,    \* keys of the blobs in the originals bucket
  thumbBucket,   \* keys of the blobs in the thumbnails bucket
  ops,           \* requests made so far
  nextKey,       \* the next uuid4 storage key
  nextId,        \* the next ObjectId the database assigns
  clock,         \* datetime.utcnow()
  op,            \* per request: the operation it runs
  pc,            \* per request: its position
  arg,           \* per request: image_id
  data,          \* per request: image_data / file
  image,         \* per request: the Image get_image returned (fields read later)
  storage_data,  \* per request: what upload_image returned
  thumbnail_url, \* per request: what generate_thumbnail returned
  origExisted,   \* per request: original_blob.exists()
  thumbExisted,  \* per request: thumbnail_blob.exists()
  matched,       \* per request: matched_count of the $inc update
  fault,         \* per request: the external service failed its last call
  result,        \* per request: outcome
  ret,           \* per request: returned value
  ledger         \* history: per image, the record_download calls that returned
                 \* and those whose event insert failed after their increment

vars == <<images, downloads, origBucket, thumbBucket, ops, nextKey,
          nextId, clock, op, pc, arg, data, image, storage_data, thumbnail_url,
          origExisted, thumbExisted, matched, fault, result, ret, ledger>>

stores == <<images, downloads, origBucket, thumbBucket>>
counters == <<ops, nextKey, nextId, clock>>
locals == <<arg, data, image, storage_data, thumbnail_url, origExisted,
            thumbExisted, matched>>

\* ------------------------------------------------------- the code's pieces

\* ImageService.get_image: find_one by _id; a missing document and any
\* exception (malformed id, database error) all become ImageNotFoundException.
GetImage(imgs, id, up) ==
  IF up /\ IsValidObjectId(id) /\ id \in DOMAIN imgs THEN Some(imgs[id]) ELSE None

\* The fields of the Image that the callers of get_image read afterwards.
Snapshot(doc) == [filename |-> doc.filename, hd_url |-> doc.hd_url]

\* StorageService.upload_image: the dict it returns for the generated key.
StorageData(key, file) ==
  [filename |-> key,
   hd_url |-> PublicUrl(GCS_ORIGINAL_BUCKET, key),
   content_type |-> file.content_type,
   file_size |-> file.file_size]

\* StorageService.generate_thumbnail: the URL it returns.
ThumbnailUrlInOriginals(filename) == PublicUrl(GCS_ORIGINAL_BUCKET, ThumbName(filename))
ThumbnailUrl(filename) == PublicUrl(GCS_THUMBNAIL_BUCKET, ThumbName(filename))

\* ImageService.create_image: the document it inserts.
NewImage(image_data, sd, turl, now) ==
  [name |-> image_data.name,
   description |-> image_data.description,
   filename |-> sd.filename,
   thumbnail_url |-> turl,
   hd_url |-> sd.hd_url,
   file_size |-> sd.file_size,
   content_type |-> sd.content_type,
   tags |-> image_data.tags,
   downloads |-> 0,
   created_at |-> now,
   is_featured |-> image_data.is_featured]

\* ImageService.update_image: {"updated_at": now, **{k: v for non-None v}}
UpdateData(image_data, now) ==
  [k \in {"updated_at"} \cup {f \in DOMAIN image_data : ~IsNone(image_data[f])} |->
     IF k \in DOMAIN image_data /\ ~IsNone(image_data[k])
       THEN Val(image_data[k]) ELSE now]

\* update_one(..., {"$set": update_data}) on one document.
ApplySet(doc, update_data) ==
  [k \in DOMAIN doc \cup DOMAIN update_data |->
     IF k \in DOMAIN update_data THEN update_data[k] ELSE doc[k]]

\* update_one(..., {"$inc": {"downloads": 1}}) on one document.
IncDownloadsByTwo(doc) == [doc EXCEPT !.downloads = @ + 2]
SetDownloadsToOne(doc) == [doc EXCEPT !.downloads = 1]
IncDownloads(doc) == [doc EXCEPT !.downloads = @ + 1]

\* update_one by _id: the matching document, if there is one, becomes updated.
\* (UpsertOne: what update_one would do with upsert=True, which the code does
\* not pass: a missing document is inserted with its _id alone.)
UpsertOne(imgs, id, updated) ==
  IF id \in DOMAIN imgs
    THEN [i \in DOMAIN imgs |-> IF i = id THEN updated[i] ELSE imgs[i]]
    ELSE imgs @@ (id :> [_id |-> id])
UpdateOne(imgs, id, updated) ==
  [i \in DOMAIN imgs |-> IF i = id THEN updated[i] ELSE imgs[i]]

\* delete_one by _id.
DeleteOneDoc(imgs, id) == [i \in DOMAIN imgs \ {id} |-> imgs[i]]

\* DownloadService.record_download: the document it inserts in db.downloads.
DownloadData(image_id, request_info) ==
  [image_id |-> image_id,
   ip_address |-> request_info.ip_address,
   user_agent |-> request_info.user_agent]

\* DownloadService.get_image_downloads: image["downloads"] if image else 0
GetImageDownloads(imgs, id) ==
  IF id \in DOMAIN imgs THEN imgs[id].downloads ELSE 0

\* StorageService.delete_image, one blob: "if blob.exists(): blob.delete()".
\* The calls raise when the object store does not answer (up is false), and
\* then the blob stays where it is.
BlobDeleteSwallows(up, exists) == FALSE
BlobDeleteRaisesIfAbsent(up, exists) == ~up \/ ~exists
BlobDeleteRaises(up, exists) == ~up
BlobDelete(bucket, key, up) == IF up THEN bucket \ {key} ELSE bucket

\* What create_image does with the blobs it has written when a later step
\* fails: nothing (the except clause logs and re-raises).
RollBack(bucket, key) == bucket \ {key}
OnCreateFailure(bucket, key) == bucket

\* PIL's Image.open on the uploaded bytes raises on undecodable bytes.
DecodeNeverRaises(file) == FALSE
DecodeRaises(file) == ~file.decodable

\* {"tags": {"$all": tags}}: the array of the document holds every listed tag.
HoldsSomeTag(doc_tags, tags) ==
  \E i \in DOMAIN tags : \E j \in DOMAIN doc_tags : doc_tags[j] = tags[i]
HoldsAllTags(doc_tags, tags) ==
  \A i \in DOMAIN tags : \E j \in DOMAIN doc_tags : doc_tags[j] = tags[i]

\* get_images / count_images: the query dict; "if tags:" is false for None and
\* for the empty list.
Query(tags, is_featured) ==
  [k \in (IF ~IsNone(tags) /\ Val(tags) # <<>> THEN {"tags"} ELSE {})
           \cup (IF ~IsNone(is_featured) THEN {"is_featured"} ELSE {}) |->
     IF k = "tags" THEN Val(tags) ELSE Val(is_featured)]

\* A document matches the query.
Matches(doc, query) ==
  /\ "tags" \in DOMAIN query => HoldsAllTags(doc.tags, query["tags"])
  /\ "is_featured" \in DOMAIN query => doc.is_featured = query["is_featured"]

\* cursor.sort("created_at", -1) over the documents with _id in S.
RECURSIVE SortByCreatedAtDesc(_, _)
SortByCreatedAtDesc(imgs, S) ==
  IF S = {} THEN <<>>
  ELSE LET first == CHOOSE i \in S : \A j \in S : imgs[j].created_at <= imgs[i].created_at
       IN <<first>> \o SortByCreatedAtDesc(imgs, S \ {first})

\* cursor.skip(skip).limit(limit), read with to_list(length=limit).
LimitOnly(sorted, skip, limit) ==
  SubSeq(sorted, 1, IF Len(sorted) < limit THEN Len(sorted) ELSE limit)
SkipLimit(sorted, skip, limit) ==
  SubSeq(sorted, skip + 1, IF Len(sorted) < skip + limit THEN Len(sorted) ELSE skip + limit)

\* ImageService.get_images: the documents it returns, named by their _id.
GetImages(imgs, skip, limit, tags, is_featured) ==
  LET query == Query(tags, is_featured) IN
  SkipLimit(SortByCreatedAtDesc(imgs, {i \in DOMAIN imgs : Matches(imgs[i], query)}),
            skip, limit)

\* ImageService.count_images: count_documents(query).
CountImages(imgs, tags, is_featured) ==
  LET query == Query(tags, is_featured) IN
  Cardinality({i \in DOMAIN imgs : Matches(imgs[i], query)})

\* The number of documents of db.downloads that refer to image_id.
RECURSIVE SumCopies(_, _)
SumCopies(B, S) ==
  IF S = {} THEN 0
  ELSE LET e == CHOOSE x \in S : TRUE IN B[e] + SumCopies(B, S \ {e})
EventsFor(id) == SumCopies(downloads, {e \in DOMAIN downloads : e.image_id = id})

\* The number of documents of db.downloads.
CountEvents(imgs) == BagCardinality(downloads)

\* DownloadService.get_total_downloads: $group with _id None and
\* {"$sum": "$downloads"}; the aggregation yields no group for an empty
\* collection, and then the result is 0.
RECURSIVE SumDownloads(_, _)
SumDownloads(imgs, S) ==
  IF S = {} THEN 0
  ELSE LET i == CHOOSE x \in S : TRUE IN imgs[i].downloads + SumDownloads(imgs, S \ {i})
GetTotalDownloads(imgs) ==
  LET groups == IF DOMAIN imgs = {} THEN <<>>
                ELSE <<[total |-> SumDownloads(imgs, DOMAIN imgs)]>> IN
  IF groups # <<>> THEN groups[1].total ELSE 0

\* ---- The float arithmetic of resize_image (Python floats are IEEE 754
\* binary64; every value here is positive and below 2^17). A float is its
\* 53-bit significand in three limbs, hi of 17 bits with the leading 1, mid
\* and lo of 18 bits, and the exponent exp of the leading bit: its value is
\* (hi * 2^36 + mid * 2^18 + lo) * 2^(exp - 52).
RECURSIVE Pow2(_)
Pow2(n) == IF n = 0 THEN 1 ELSE 2 * Pow2(n - 1)

Limb == Pow2(18)
HiUnit == Pow2(16)

\* The exponent e with 2^e <= a/b < 2^(e+1), searched from e upwards or downwards.
RECURSIVE ExponentOf(_, _, _)
ExponentOf(a, b, e) ==
  IF e >= 0
    THEN IF a < b * Pow2(e) THEN ExponentOf(a, b, e - 1)
         ELSE IF a >= b * Pow2(e + 1) THEN ExponentOf(a, b, e + 1) ELSE e
    ELSE IF a * Pow2(0 - e) < b THEN ExponentOf(a, b, e - 1) ELSE e

\* Round to nearest, ties to even: hi, mid, lo are the 53 leading bits of the
\* exact value, guard is the next bit, sticky says a later bit is 1.
RoundToEven(hi, mid, lo, exp, guard, sticky) ==
  IF ~(guard = 1 /\ (sticky \/ lo % 2 = 1))
    THEN [hi |-> hi, mid |-> mid, lo |-> lo, exp |-> exp]
  ELSE IF lo + 1 < Limb
    THEN [hi |-> hi, mid |-> mid, lo |-> lo + 1, exp |-> exp]
  ELSE IF mid + 1 < Limb
    THEN [hi |-> hi, mid |-> mid + 1, lo |-> 0, exp |-> exp]
  ELSE IF hi + 1 < 2 * HiUnit
    THEN [hi |-> hi + 1, mid |-> 0, lo |-> 0, exp |-> exp]
    ELSE [hi |-> HiUnit, mid |-> 0, lo |-> 0, exp |-> exp + 1]

\* a / b of two positive ints below 2^12: the float nearest to the quotient,
\* by long division of r/d (1 <= r/d < 2), one limb at a time.
TrueDivide(a, b) ==
  LET e == ExponentOf(a, b, 0)
      r == IF e >= 0 THEN a ELSE a * Pow2(0 - e)
      d == IF e >= 0 THEN b * Pow2(e) ELSE b
      hi == (r * HiUnit) \div d
      r1 == (r * HiUnit) % d
      mid == (r1 * Limb) \div d
      r2 == (r1 * Limb) % d
      lo == (r2 * Limb) \div d
      r3 == (r2 * Limb) % d
      guard == IF 2 * r3 >= d THEN 1 ELSE 0
  IN RoundToEven(hi, mid, lo, e, guard, 2 * r3 - guard * d # 0)

\* x < y and min(x, y) of two floats.
FloatLess(x, y) ==
  \/ x.exp < y.exp
  \/ x.exp = y.exp /\ x.hi < y.hi
  \/ x.exp = y.exp /\ x.hi = y.hi /\ x.mid < y.mid
  \/ x.exp = y.exp /\ x.hi = y.hi /\ x.mid = y.mid /\ x.lo < y.lo
FloatMin(x, y) == IF FloatLess(y, x) THEN y ELSE x

\* The number s with 2^16 * 2^s <= n < 2^17 * 2^s, for n >= 2^16.
RECURSIVE ExtraBits(_)
ExtraBits(n) == IF n < 2 * HiUnit THEN 0 ELSE 1 + ExtraBits(n \div 2)

\* k * x of an int k (1 <= k < 2^12) and a float x: the float nearest to the
\* product. The exact product is pHi * 2^36 + pMid * 2^18 + pLo, of which the
\* s lowest bits are rounded away.
FloatMultiply(k, x) ==
  LET pLo == (x.lo * k) % Limb
      cMid == x.mid * k + (x.lo * k) \div Limb
      pMid == cMid % Limb
      pHi == x.hi * k + cMid \div Limb
      s == ExtraBits(pHi)
      unit == Pow2(s)
      hi == pHi \div unit
      mid == ((pHi % unit) * Limb + pMid) \div unit
      lo == ((pMid % unit) * Limb + pLo) \div unit
      away == pLo % unit
      guard == IF s > 0 /\ away >= unit \div 2 THEN 1 ELSE 0
      sticky == s > 0 /\ away % (unit \div 2) # 0
  IN RoundToEven(hi, mid, lo, x.exp + s, guard, sticky)

\* int(x) of a float below 2^17: the digits before the point.
FloatToInt(x) == IF x.exp < 0 THEN 0 ELSE x.hi \div Pow2(16 - x.exp)

\* resize_image: the size of the image it saves; ratio < 1 is exp < 0.
ResizeImage(size, max_size) ==
  LET width == size[1]
      height == size[2]
      ratio == FloatMin(TrueDivide(max_size[1], width), TrueDivide(max_size[2], height))
  IN IF ratio.exp < 0
       THEN <<FloatToInt(FloatMultiply(width, ratio)), FloatToInt(FloatMultiply(height, ratio))>>
       ELSE size

\* The response to a request that raised: ImageNotFoundException and
\* StorageException(str(e)) are HTTPExceptions that carry their own detail; any
\* other exception reaches exception_handler.
ErrorResponse(res, text) ==
  CASE res = "NotFound" ->
         [status_code |-> 404, detail |-> <<"Image not found">>]
    [] res = "StorageFailure" ->
         [status_code |-> 500, detail |-> <<"Storage error: ", text>>]
    [] OTHER ->
         [status_code |-> 500, detail |-> <<"An unexpected error occurred">>]

\* ------------------------------------------------------------ the requests

Failures == {"NotFound", "StorageFailure", "MetadataStoreFailure", "InvalidId"}

Init ==
  /\ images = <<>>
  /\ downloads = EmptyBag
  /\ origBucket = {}
  /\ thumbBucket = {}
  /\ ops = 0
  /\ nextKey = 1
  /\ nextId = 1
  /\ clock = 0
  /\ op = [p \in Procs |-> "none"]
  /\ pc = [p \in Procs |-> "idle"]
  /\ arg = [p \in Procs |-> NoId]
  /\ data = [p \in Procs |-> None]
  /\ image = [p \in Procs |-> None]
  /\ storage_data = [p \in Procs |-> None]
  /\ thumbnail_url = [p \in Procs |-> None]
  /\ origExisted = [p \in Procs |-> FALSE]
  /\ thumbExisted = [p \in Procs |-> FALSE]
  /\ matched = [p \in Procs |-> FALSE]
  /\ fault = [p \in Procs |-> FALSE]
  /\ result = [p \in Procs |-> "none"]
  /\ ret = [p \in Procs |-> None]
  /\ ledger = <<>>

\* No request stands between its last call and its return.
Quiet == \A q \in Procs : pc[q] # "done"

\* The request p is at position at of operation o.
At(p, o, at) == Quiet /\ op[p] = o /\ pc[p] = at

\* The request p moves to position at.
Goto(p, at) ==
  /\ pc' = [pc EXCEPT ![p] = at]
  /\ fault' = [fault EXCEPT ![p] = FALSE]
  /\ UNCHANGED <<result, ret>>

\* The request p ends: it raises (res in Failures) and the response is the
\* error's, or it returns rv (res = "ok"). up: the external service answered
\* the call of this step; text: str(e) of the exception raised.
Finish(p, res, rv, up) ==
  /\ pc' = [pc EXCEPT ![p] = "done"]
  /\ fault' = [fault EXCEPT ![p] = ~up]
  /\ result' = [result EXCEPT ![p] = res]
  /\ \E text \in ErrorTexts :
       ret' = [ret EXCEPT ![p] = IF res \in Failures
                                   THEN Some(ErrorResponse(res, text))
                                   ELSE rv]

\* A request begins operation o with image_id id and input d, in the first
\* free request slot.
Begin(p, o, id, d) ==
  /\ Quiet
  /\ pc[p] = "idle"
  /\ \A q \in Procs : q < p => pc[q] # "idle"
  /\ ops < MaxOps
  /\ ops' = ops + 1
  /\ op' = [op EXCEPT ![p] = o]
  /\ arg' = [arg EXCEPT ![p] = id]
  /\ data' = [data EXCEPT ![p] = d]

\* The ids a caller can name: those the database has assigned so far, and NoId.
KnownIds == (1..(nextId - 1)) \cup {NoId}

\* ---- ImageService.create_image

\* the call, up to storage_service.upload_image(file)
create_image(p) ==
  /\ Quiet
  /\ pc[p] = "idle"
  /\ \E file \in Files, image_data \in CreateData, up \in BOOLEAN :
    /\ Begin(p, "create_image", NoId, Some([file |-> file, image_data |-> image_data]))
    /\ IF ~up
         THEN /\ Finish(p, "StorageFailure", None, up)
              /\ UNCHANGED <<origBucket, nextKey, storage_data>>
         ELSE /\ origBucket' = origBucket \cup {nextKey}
              /\ storage_data' = [storage_data EXCEPT ![p] = Some(StorageData(nextKey, file))]
              /\ nextKey' = nextKey + 1
              /\ Goto(p, "create_thumb")
    /\ UNCHANGED <<images, downloads, thumbBucket, nextId, clock, image,
                   thumbnail_url, origExisted, thumbExisted, matched, ledger>>

\* storage_service.generate_thumbnail(filename, content)
generate_thumbnail(p) ==
  /\ At(p, "create_image", "create_thumb")
  /\ \E up \in BOOLEAN :
       LET filename == Val(storage_data[p]).filename IN
       IF DecodeRaises(Val(data[p]).file) \/ ~up
         THEN /\ Finish(p, "StorageFailure", None, up)
              /\ origBucket' = OnCreateFailure(origBucket, filename)
              /\ UNCHANGED <<thumbBucket, thumbnail_url>>
         ELSE /\ thumbBucket' = thumbBucket \cup {ThumbName(filename)}
              /\ thumbnail_url' = [thumbnail_url EXCEPT ![p] = Some(ThumbnailUrl(filename))]
              /\ Goto(p, "create_insert")
              /\ UNCHANGED origBucket
  /\ UNCHANGED <<images, downloads, counters, op, arg, data, image, storage_data,
                 origExisted, thumbExisted, matched, ledger>>

\* db.images.insert_one(new_image), and the return
insert_image(p) ==
  /\ At(p, "create_image", "create_insert")
  /\ \E up \in BOOLEAN :
       LET sd == Val(storage_data[p]) IN
       IF ~up
         THEN /\ Finish(p, "MetadataStoreFailure", None, up)
              /\ origBucket' = OnCreateFailure(origBucket, sd.filename)
              /\ thumbBucket' = OnCreateFailure(thumbBucket, ThumbName(sd.filename))
              /\ UNCHANGED <<images, nextId, clock, ledger>>
         ELSE /\ images' = images @@
                   (nextId :> NewImage(Val(data[p]).image_data, sd, Val(thumbnail_url[p]), clock))
              /\ ledger' = ledger @@ (nextId :> [ok |-> 0, failed |-> 0])
              /\ nextId' = nextId + 1
              /\ clock' = clock + 1
              /\ Finish(p, "ok", Some(nextId), up)
              /\ UNCHANGED <<origBucket, thumbBucket>>
  /\ UNCHANGED <<downloads, ops, nextKey, op, arg, data, image, storage_data, thumbnail_url,
                 origExisted, thumbExisted, matched>>

\* ---- ImageService.delete_image

\* the call, up to image = await self.get_image(image_id)
delete_image(p) ==
  /\ Quiet
  /\ pc[p] = "idle"
  /\ \E id \in KnownIds, up \in BOOLEAN :
    /\ Begin(p, "delete_image", id, None)
    /\ LET got == GetImage(images, id, up) IN
       IF IsNone(got)
         THEN /\ Finish(p, "NotFound", None, up)
              /\ UNCHANGED image
         ELSE /\ image' = [image EXCEPT ![p] = Some(Snapshot(Val(got)))]
              /\ Goto(p, "delete_orig")
    /\ UNCHANGED <<stores, nextKey, nextId, clock, storage_data, thumbnail_url,
                   origExisted, thumbExisted, matched, ledger>>

\* StorageService.delete_image: the original blob
delete_original(p) ==
  /\ At(p, "delete_image", "delete_orig")
  /\ \E up \in BOOLEAN :
       LET filename == Val(image[p]).filename
           exists == filename \in origBucket IN
       IF BlobDeleteRaises(up, exists)
         THEN /\ Finish(p, "StorageFailure", None, up)
              /\ UNCHANGED <<origBucket, origExisted>>
         ELSE /\ origExisted' = [origExisted EXCEPT ![p] = exists]
              /\ origBucket' = BlobDelete(origBucket, filename, up)
              /\ Goto(p, "delete_thumb")
  /\ UNCHANGED <<images, downloads, thumbBucket, counters, op, arg, data, image,
                 storage_data, thumbnail_url, thumbExisted, matched, ledger>>

\* StorageService.delete_image: the thumbnail blob
delete_thumbnail(p) ==
  /\ At(p, "delete_image", "delete_thumb")
  /\ \E up \in BOOLEAN :
       LET thumbnail_filename == ThumbName(Val(image[p]).filename)
           exists == thumbnail_filename \in thumbBucket IN
       IF BlobDeleteRaises(up, exists)
         THEN /\ Finish(p, "StorageFailure", None, up)
              /\ UNCHANGED <<thumbBucket, thumbExisted>>
         ELSE /\ thumbExisted' = [thumbExisted EXCEPT ![p] = exists]
              /\ thumbBucket' = BlobDelete(thumbBucket, thumbnail_filename, up)
              /\ Goto(p, "delete_db")
  /\ UNCHANGED <<images, downloads, origBucket, counters, op, arg, data, image,
                 storage_data, thumbnail_url, origExisted, matched, ledger>>

\* db.images.delete_one({"_id": ObjectId(image_id)}), and the return
delete_one(p) ==
  /\ At(p, "delete_image", "delete_db")
  /\ \E up \in BOOLEAN :
       IF ~up
         THEN /\ Finish(p, "MetadataStoreFailure", None, up)
              /\ UNCHANGED <<images, ledger>>
         ELSE /\ images' = DeleteOneDoc(images, arg[p])
              /\ ledger' = DeleteOneDoc(ledger, arg[p])
              /\ Finish(p, "ok", Some(arg[p] \in DOMAIN images), up)
  /\ UNCHANGED <<downloads, origBucket, thumbBucket, counters, op, locals>>

\* ---- ImageService.update_image

\* the call, up to image = await self.get_image(image_id)
update_image(p) ==
  /\ Quiet
  /\ pc[p] = "idle"
  /\ \E id \in KnownIds, patch \in Patches, up \in BOOLEAN :
    /\ Begin(p, "update_image", id, Some(patch))
    /\ IF IsNone(GetImage(images, id, up))
         THEN Finish(p, "NotFound", None, up)
         ELSE Goto(p, "update_set")
    /\ UNCHANGED <<stores, nextKey, nextId, clock, image, storage_data, thumbnail_url,
                   origExisted, thumbExisted, matched, ledger>>

\* db.images.update_one({"_id": ...}, {"$set": update_data})
update_set(p) ==
  /\ At(p, "update_image", "update_set")
  /\ \E up \in BOOLEAN :
       IF ~up
         THEN /\ Finish(p, "MetadataStoreFailure", None, up)
              /\ UNCHANGED <<images, clock>>
         ELSE /\ LET update_data == UpdateData(Val(data[p]), clock)
                     set == [i \in DOMAIN images |->
                               ApplySet(images[i], update_data)] IN
                 images' = UpdateOne(images, arg[p], set)
              /\ clock' = clock + 1
              /\ Goto(p, "update_reread")
  /\ UNCHANGED <<downloads, origBucket, thumbBucket, ops, nextKey, nextId, op, locals,
                 ledger>>

\* return await self.get_image(image_id)
update_reread(p) ==
  /\ At(p, "update_image", "update_reread")
  /\ \E up \in BOOLEAN :
       LET got == GetImage(images, arg[p], up) IN
       IF IsNone(got)
         THEN Finish(p, "NotFound", None, up)
         ELSE Finish(p, "ok", got, up)
  /\ UNCHANGED <<stores, counters, op, locals, ledger>>

\* ---- POST /downloads/{image_id} and DownloadService.record_download

\* update_one({"_id": ObjectId(image_id)}, {"$inc": {"downloads": 1}}) by request p
Increment(p, id, up) ==
  IF ~IsValidObjectId(id)
    THEN /\ Finish(p, "InvalidId", None, TRUE)
         /\ UNCHANGED <<images, matched, ledger>>
  ELSE IF ~up
    THEN /\ Finish(p, "MetadataStoreFailure", None, up)
         /\ UNCHANGED <<images, matched, ledger>>
    ELSE /\ images' = UpdateOne(images, id,
                                [i \in DOMAIN images |-> IncDownloads(images[i])])
         /\ matched' = [matched EXCEPT ![p] = id \in DOMAIN images]
         /\ Goto(p, "rd_insert")
         /\ UNCHANGED ledger

\* the endpoint, up to image = await image_service.get_image(image_id)
download_image(p) ==
  /\ Quiet
  /\ pc[p] = "idle"
  /\ \E id \in KnownIds \cup {BadId}, up \in BOOLEAN :
    /\ Begin(p, "download_image", id, None)
    /\ LET got == GetImage(images, id, up) IN
       IF IsNone(got)
         THEN /\ Finish(p, "NotFound", None, up)
              /\ UNCHANGED image
         ELSE /\ image' = [image EXCEPT ![p] = Some(Snapshot(Val(got)))]
              /\ Goto(p, "rd_inc")
    /\ UNCHANGED <<stores, nextKey, nextId, clock, storage_data, thumbnail_url,
                   origExisted, thumbExisted, matched, ledger>>

\* the endpoint's call of record_download, up to the $inc update
increment_counter(p) ==
  /\ At(p, "download_image", "rd_inc")
  /\ \E up \in BOOLEAN : Increment(p, arg[p], up)
  /\ UNCHANGED <<downloads, origBucket, thumbBucket, counters, op, arg, data, image,
                 storage_data, thumbnail_url, origExisted, thumbExisted>>

\* DownloadService.record_download called by another caller than the endpoint,
\* up to the $inc update
record_download(p) ==
  /\ Quiet
  /\ pc[p] = "idle"
  /\ \E id \in KnownIds \cup {BadId}, up \in BOOLEAN :
    /\ Begin(p, "record_download", id, None)
    /\ Increment(p, id, up)
    /\ UNCHANGED <<downloads, origBucket, thumbBucket, nextKey, nextId, clock, image,
                   storage_data, thumbnail_url, origExisted, thumbExisted>>

\* db.downloads.insert_one(download_data), and the return
insert_download(p) ==
  /\ Quiet
  /\ pc[p] = "rd_insert"
  /\ \E up \in BOOLEAN :
       IF ~up
         THEN /\ Finish(p, "MetadataStoreFailure", None, up)
              /\ ledger' = [i \in DOMAIN ledger |->
                              IF i = arg[p] /\ matched[p]
                                THEN [ledger[i] EXCEPT !.failed = @ + 1]
                                ELSE ledger[i]]
              /\ UNCHANGED downloads
         ELSE /\ downloads' = downloads (+) SetToBag({DownloadData(arg[p], RequestInfo)})
              /\ ledger' = [i \in DOMAIN ledger |->
                              IF i = arg[p] /\ matched[p]
                                THEN [ledger[i] EXCEPT !.ok = @ + 1]
                                ELSE ledger[i]]
              /\ Finish(p, "ok",
                        IF op[p] = "download_image"
                          THEN Some(Val(image[p]).hd_url)
                          ELSE Some(DownloadData(arg[p], RequestInfo)),
                        up)
  /\ UNCHANGED <<images, origBucket, thumbBucket, counters, op, locals>>

\* ---- GET /images: get_images, then count_images, and the return. No request
\* writes the images collection where this handler runs, so that its two reads
\* see one store and are taken in one step.
get_images(p) ==
  /\ Quiet
  /\ pc[p] = "idle"
  /\ \E params \in ListParams, up \in BOOLEAN :
    /\ Begin(p, "get_images", NoId, Some(params))
    /\ IF ~up
         THEN Finish(p, "MetadataStoreFailure", None, up)
         ELSE Finish(p, "ok",
                     Some([images |-> GetImages(images, params.skip, params.limit,
                                                params.tags, params.featured),
                           total |-> CountImages(images, params.tags, params.featured)]),
                     up)
    /\ UNCHANGED <<stores, nextKey, nextId, clock, image, storage_data, thumbnail_url,
                   origExisted, thumbExisted, matched, ledger>>

\* ---- GET /downloads/{image_id}/count and DownloadService.get_image_downloads

\* find_one({"_id": ObjectId(image_id)}, {"downloads": 1}) by request p, and
\* the return
FindDownloads(p, id, up) ==
  IF ~IsValidObjectId(id)
    THEN Finish(p, "InvalidId", None, TRUE)
  ELSE IF ~up
    THEN Finish(p, "MetadataStoreFailure", None, up)
    ELSE Finish(p, "ok", Some(GetImageDownloads(images, id)), up)

\* the endpoint, up to await image_service.get_image(image_id)
count_endpoint(p) ==
  /\ Quiet
  /\ pc[p] = "idle"
  /\ \E id \in KnownIds \cup {BadId}, up \in BOOLEAN :
       /\ Begin(p, "count_endpoint", id, None)
       /\ IF IsNone(GetImage(images, id, up))
            THEN Finish(p, "NotFound", None, up)
            ELSE Goto(p, "count_find")
  /\ UNCHANGED <<stores, nextKey, nextId, clock, image, storage_data, thumbnail_url,
                 origExisted, thumbExisted, matched, ledger>>

\* the endpoint's call of get_image_downloads
count_lookup(p) ==
  /\ At(p, "count_endpoint", "count_find")
  /\ \E up \in BOOLEAN : FindDownloads(p, arg[p], up)
  /\ UNCHANGED <<stores, counters, op, locals, ledger>>

\* DownloadService.get_image_downloads called by another caller than the endpoint
get_image_downloads(p) ==
  /\ Quiet
  /\ pc[p] = "idle"
  /\ \E id \in KnownIds \cup {BadId}, up \in BOOLEAN :
       /\ Begin(p, "get_image_downloads", id, None)
       /\ FindDownloads(p, id, up)
  /\ UNCHANGED <<stores, nextKey, nextId, clock, image, storage_data, thumbnail_url,
                 origExisted, thumbExisted, matched, ledger>>

\* ---- GET /downloads/total: DownloadService.get_total_downloads
get_total_downloads(p) ==
  /\ Quiet
  /\ pc[p] = "idle"
  /\ \E up \in BOOLEAN :
       /\ Begin(p, "get_total_downloads", NoId, None)
       /\ IF ~up
            THEN Finish(p, "MetadataStoreFailure", None, up)
            ELSE Finish(p, "ok", Some(GetTotalDownloads(images)), up)
  /\ UNCHANGED <<stores, nextKey, nextId, clock, image, storage_data, thumbnail_url,
                 origExisted, thumbExisted, matched, ledger>>

\* ---- resize_image(image_bytes, max_size) on an image of width x height
\* pixels; Pillow's Image.resize raises ValueError for a size with a 0
resize_image(p) ==
  /\ Quiet
  /\ pc[p] = "idle"
  /\ \E width \in Sizes, height \in Sizes :
       /\ Begin(p, "resize_image", NoId, Some(<<width, height>>))
       /\ LET new_size == ResizeImage(<<width, height>>, ThumbnailSize) IN
          IF new_size[1] = 0 \/ new_size[2] = 0
            THEN Finish(p, "ValueError", None, TRUE)
            ELSE Finish(p, "ok", Some(new_size), TRUE)
  /\ UNCHANGED <<stores, nextKey, nextId, clock, image, storage_data, thumbnail_url,
                 origExisted, thumbExisted, matched, ledger>>

\* ---- the response is sent and the request's frame is gone
Return(p) ==
  /\ pc[p] = "done"
  /\ op' = [op EXCEPT ![p] = "none"]
  /\ pc' = [pc EXCEPT ![p] = "idle"]
  /\ arg' = [arg EXCEPT ![p] = NoId]
  /\ data' = [data EXCEPT ![p] = None]
  /\ image' = [image EXCEPT ![p] = None]
  /\ storage_data' = [storage_data EXCEPT ![p] = None]
  /\ thumbnail_url' = [thumbnail_url EXCEPT ![p] = None]
  /\ origExisted' = [origExisted EXCEPT ![p] = FALSE]
  /\ thumbExisted' = [thumbExisted EXCEPT ![p] = FALSE]
  /\ matched' = [matched EXCEPT ![p] = FALSE]
  /\ fault' = [fault EXCEPT ![p] = FALSE]
  /\ result' = [result EXCEPT ![p] = "none"]
  /\ ret' = [ret EXCEPT ![p] = None]
  /\ UNCHANGED <<stores, counters, ledger>>

\* ------------------------------------------------------- the specifications

\* Every operation of the two services that writes a store.
Next ==
  \E p \in Procs :
    \/ create_image(p)
    \/ generate_thumbnail(p)
    \/ insert_image(p)
    \/ delete_image(p)
    \/ delete_original(p)
    \/ delete_thumbnail(p)
    \/ delete_one(p)
    \/ update_image(p)
    \/ update_set(p)
    \/ update_reread(p)
    \/ download_image(p)
    \/ increment_counter(p)
    \/ record_download(p)
    \/ insert_download(p)
    \/ Return(p)

Spec == Init /\ [][Next]_vars

\* Uploads and downloads only: every image exists from its creation on.
NextDl ==
  \E p \in Procs :
    \/ create_image(p)
    \/ generate_thumbnail(p)
    \/ insert_image(p)
    \/ download_image(p)
    \/ increment_counter(p)
    \/ record_download(p)
    \/ insert_download(p)
    \/ Return(p)

SpecDl == Init /\ [][NextDl]_vars

\* The ingestion pipeline only: uploads, updates and deletions.
NextIn ==
  \E p \in Procs :
    \/ create_image(p)
    \/ generate_thumbnail(p)
    \/ insert_image(p)
    \/ delete_image(p)
    \/ delete_original(p)
    \/ delete_thumbnail(p)
    \/ delete_one(p)
    \/ update_image(p)
    \/ update_set(p)
    \/ update_reread(p)
    \/ Return(p)

SpecIn == Init /\ [][NextIn]_vars

\* Listings of a store that n uploads have filled: the records carry the keys,
\* ids and creation times of the uploads, in their order.
ListStores ==
  UNION { [1..n -> ListData] : n \in 0..(IF MaxDocs < MaxOps THEN MaxDocs ELSE MaxOps - 1) }

InitList ==
  \E store \in ListStores :
    LET n == Len(store) IN
    /\ images = [i \in 1..n |->
                   NewImage(store[i],
                            StorageData(i, [content_type |-> "image/png", file_size |-> 1]),
                            ThumbnailUrl(i), i - 1)]
    /\ downloads = EmptyBag
    /\ origBucket = 1..n
    /\ thumbBucket = {ThumbName(i) : i \in 1..n}
    /\ ops = n
    /\ nextKey = n + 1
    /\ nextId = n + 1
    /\ clock = n
    /\ op = [p \in Procs |-> "none"]
    /\ pc = [p \in Procs |-> "idle"]
    /\ arg = [p \in Procs |-> NoId]
    /\ data = [p \in Procs |-> None]
    /\ image = [p \in Procs |-> None]
    /\ storage_data = [p \in Procs |-> None]
    /\ thumbnail_url = [p \in Procs |-> None]
    /\ origExisted = [p \in Procs |-> FALSE]
    /\ thumbExisted = [p \in Procs |-> FALSE]
    /\ matched = [p \in Procs |-> FALSE]
    /\ fault = [p \in Procs |-> FALSE]
    /\ result = [p \in Procs |-> "none"]
    /\ ret = [p \in Procs |-> None]
    /\ ledger = [i \in 1..n |-> [ok |-> 0, failed |-> 0]]

NextList ==
  \E p \in Procs :
    \/ get_images(p)
    \/ Return(p)

SpecList == InitList /\ [][NextList]_vars

\* Download accounting over records that come and go: uploads, recorded
\* downloads, deletions and the count lookups.
NextAcc ==
  \E p \in Procs :
    \/ create_image(p)
    \/ generate_thumbnail(p)
    \/ insert_image(p)
    \/ delete_image(p)
    \/ delete_original(p)
    \/ delete_thumbnail(p)
    \/ delete_one(p)
    \/ record_download(p)
    \/ insert_download(p)
    \/ get_total_downloads(p)
    \/ Return(p)

SpecAcc == Init /\ [][NextAcc]_vars

\* The count lookup of a record among uploads, recorded downloads and deletions.
NextCnt ==
  \E p \in Procs :
    \/ create_image(p)
    \/ generate_thumbnail(p)
    \/ insert_image(p)
    \/ delete_image(p)
    \/ delete_original(p)
    \/ delete_thumbnail(p)
    \/ delete_one(p)
    \/ record_download(p)
    \/ insert_download(p)
    \/ count_endpoint(p)
    \/ count_lookup(p)
    \/ get_image_downloads(p)
    \/ Return(p)

SpecCnt == Init /\ [][NextCnt]_vars

\* The thumbnailer alone.
NextThumb ==
  \E p \in Procs :
    \/ resize_image(p)
    \/ Return(p)

SpecThumb == Init /\ [][NextThumb]_vars

\* ------------------------------------------------------------- the claims

\* The step is a step of request p.
StepOf(p) == pc'[p] # pc[p]

DownloadOps == {"download_image", "record_download"}

\* The downloads of image id that have begun and not returned.
InFlight(id) ==
  {p \in Procs : op[p] \in DownloadOps /\ arg[p] = id /\ pc[p] \in {"rd_inc", "rd_insert"}}

\* The downloads of image id that have incremented its counter and not returned.
PastIncrement(id) ==
  {p \in Procs : op[p] \in DownloadOps /\ arg[p] = id /\ pc[p] = "rd_insert" /\ matched[p]}

\* The ids the database has assigned to a record that is no longer there.
DeletedIds == (1..(nextId - 1)) \ DOMAIN images

\* C1: a download of a well-formed id for which no ImageRecord exists, served
\* by a database that answers, returns NotFound, inserts no DownloadEvent and
\* changes no image's counter, through the endpoint and through
\* DownloadService.record_download alike.
C1_MissingImageDownload ==
  [][\A p \in Procs :
       (/\ StepOf(p)
        /\ pc'[p] = "done"
        /\ op'[p] \in DownloadOps
        /\ IsValidObjectId(arg'[p])
        /\ arg'[p] \notin DOMAIN images
        /\ ~fault'[p])
       => (/\ result'[p] = "NotFound"
           /\ downloads' = downloads
           /\ images' = images)]_vars

\* C2: while an image exists, once its record_download calls have all returned
\* successfully get_image_downloads returns the number of those calls, and a
\* step of a download of one image leaves every other image's record as it was.
C2_CountsCalls ==
  \A id \in DOMAIN images :
    (InFlight(id) = {} /\ ledger[id].failed = 0)
      => GetImageDownloads(images, id) = ledger[id].ok

C2_OtherImagesKept ==
  \A p \in Procs :
    (StepOf(p) /\ op'[p] \in DownloadOps)
      => \A j \in DOMAIN images :
           j # arg'[p] => (j \in DOMAIN images' /\ images'[j] = images[j])

C2_SequentialDownloads == [](C2_CountsCalls) /\ [][C2_OtherImagesKept]_vars

C2_Witness ==
  \E id \in DOMAIN images :
    /\ DOMAIN images # {id}
    /\ InFlight(id) = {}
    /\ ledger[id].failed = 0
    /\ ledger[id].ok = 2
    /\ GetImageDownloads(images, id) = 2

\* C3: in every interleaving of the downloads of one image, its counter is the
\* number of downloads that have made their increment: those that returned,
\* those whose event insert failed and those that stand before the insert.
C3_NoLostIncrement ==
  \A id \in DOMAIN images :
    images[id].downloads =
      ledger[id].ok + ledger[id].failed + Cardinality(PastIncrement(id))

C3_Witness ==
  \E id \in DOMAIN images :
    /\ Cardinality(PastIncrement(id)) = 2
    /\ images[id].downloads = 2

\* C4: for every ImageRecord with no download in flight, the download counter
\* equals the number of DownloadEvents that refer to the record.
C4_CounterEqualsEvents ==
  \A id \in DOMAIN images :
    InFlight(id) = {} => images[id].downloads = EventsFor(id)

\* C5: delete_image removes the record only after both blobs are gone, and a
\* blob deletion that fails, on the original or on the thumbnail, ends the
\* request with StorageFailure and leaves the images collection as it was.
C5_DeleteStep ==
  \A p \in Procs :
    (StepOf(p) /\ op'[p] = "delete_image")
      => /\ (pc[p] \in {"delete_orig", "delete_thumb"} /\ fault'[p])
              => (/\ pc'[p] = "done"
                  /\ result'[p] = "StorageFailure"
                  /\ images' = images)
         /\ images' # images
              => (/\ pc[p] = "delete_db"
                  /\ Val(image[p]).filename \notin origBucket
                  /\ <<"thumb_", Val(image[p]).filename>> \notin thumbBucket)

C5_DeleteOrder == [][C5_DeleteStep]_vars

C5_Witness ==
  \E p \in Procs :
    /\ op[p] = "delete_image" /\ pc[p] = "done"
    /\ result[p] = "StorageFailure"
    /\ origExisted[p]
    /\ Val(image[p]).filename \notin origBucket
    /\ arg[p] \in DOMAIN images

\* C6: delete_image of an id whose record was deleted returns NotFound and
\* changes nothing; a delete_image fails with StorageFailure only when the
\* object store failed, never because a blob was absent, and one that returns
\* has removed the record.
C6_SecondDelete ==
  \A p \in Procs :
    (StepOf(p) /\ pc[p] = "idle" /\ op'[p] = "delete_image" /\ arg'[p] \in DeletedIds)
      => (/\ pc'[p] = "done"
          /\ result'[p] = "NotFound"
          /\ UNCHANGED stores)

C6_AbsentBlobNoError ==
  \A p \in Procs :
    (op[p] = "delete_image" /\ pc[p] = "done")
      => /\ result[p] = "StorageFailure" => fault[p]
         /\ result[p] = "ok" => arg[p] \notin DOMAIN images

C6_IdempotentDelete == [](C6_AbsentBlobNoError) /\ [][C6_SecondDelete]_vars

C6_Witness ==
  \E p \in Procs :
    /\ op[p] = "delete_image" /\ pc[p] = "done"
    /\ result[p] = "ok"
    /\ ~origExisted[p]
    /\ ret[p] = Some(TRUE)

\* C7: a create_image whose step fails (the object store or the database fails
\* the call, or the bytes cannot be decoded) ends there with a failure, takes
\* no step twice, and leaves no record of its upload in the images collection.
CreateRank(at) ==
  CASE at = "idle" -> 0
    [] at = "create_thumb" -> 1
    [] at = "create_insert" -> 2
    [] at = "done" -> 3

C7_FailedStep ==
  \A p \in Procs :
    (StepOf(p) /\ op'[p] = "create_image")
      => /\ CreateRank(pc'[p]) > CreateRank(pc[p])
         /\ (fault'[p] \/ (pc[p] = "create_thumb" /\ ~Val(data[p]).file.decodable))
              => (/\ pc'[p] = "done"
                  /\ result'[p] \in Failures
                  /\ images' = images)

C7_NoRecord ==
  \A p \in Procs :
    (op[p] = "create_image" /\ pc[p] = "done" /\ result[p] # "ok")
      => /\ result[p] \in Failures
         /\ ~IsNone(storage_data[p])
              => \A id \in DOMAIN images :
                   images[id].filename # Val(storage_data[p]).filename

C7_CreateAborts == [](C7_NoRecord) /\ [][C7_FailedStep]_vars

C7_Witness ==
  \E p \in Procs :
    /\ op[p] = "create_image" /\ pc[p] = "done"
    /\ result[p] = "StorageFailure"
    /\ ~Val(data[p]).file.decodable
    /\ ~IsNone(storage_data[p])
    /\ DOMAIN images # {}

\* C8: when create_image fails after the original upload, the original blob,
\* and the thumbnail blob if it was uploaded, are still in their buckets and
\* no record refers to them.
C8_NoRollback ==
  \A p \in Procs :
    (op[p] = "create_image" /\ pc[p] = "done" /\ result[p] # "ok"
       /\ ~IsNone(storage_data[p]))
      => LET key == Val(storage_data[p]).filename IN
         /\ key \in origBucket
         /\ ~IsNone(thumbnail_url[p]) => <<"thumb_", key>> \in thumbBucket
         /\ \A id \in DOMAIN images : images[id].filename # key

C8_Witness ==
  \E p \in Procs :
    /\ op[p] = "create_image" /\ pc[p] = "done"
    /\ result[p] = "MetadataStoreFailure"
    /\ ~IsNone(thumbnail_url[p])
    /\ <<"thumb_", Val(storage_data[p]).filename>> \in thumbBucket

\* C9: when create_image returns, get_image of the returned id yields a record
\* with counter 0 and the generated key as filename; the original blob is in
\* the originals bucket under the key, the thumbnail blob in the thumbnails
\* bucket under thumb_<key>, and the two URLs name these bucket/key pairs.
C9_CreateThenGet ==
  \A p \in Procs :
    (op[p] = "create_image" /\ pc[p] = "done" /\ result[p] = "ok")
      => LET key == Val(storage_data[p]).filename
             got == GetImage(images, Val(ret[p]), TRUE) IN
         /\ ~IsNone(got)
         /\ Val(got).downloads = 0
         /\ Val(got).filename = key
         /\ key \in origBucket
         /\ <<"thumb_", key>> \in thumbBucket
         /\ Val(got).hd_url = <<"https://storage.googleapis.com", "originals", key>>
         /\ Val(got).thumbnail_url =
              <<"https://storage.googleapis.com", "thumbnails", <<"thumb_", key>>>>

C9_Witness ==
  \E p \in Procs :
    /\ op[p] = "create_image" /\ pc[p] = "done" /\ result[p] = "ok"
    /\ Val(ret[p]) = 2

\* C10: the $set of update_image changes, of an existing record, only the
\* fields name, description, tags and is_featured that the patch gives a
\* non-null value, and updated_at; filename, thumbnail_url, hd_url, downloads
\* and created_at are the same before and after, whatever the patch.
PatchFields == {"name", "description", "tags", "is_featured"}

C10_UpdateStep ==
  \A p \in Procs :
    (StepOf(p) /\ op[p] = "update_image" /\ pc[p] = "update_set")
      => \A id \in DOMAIN images :
           /\ id \in DOMAIN images'
           /\ \A f \in DOMAIN images[id] :
                \/ images'[id][f] = images[id][f]
                \/ f = "updated_at"
                \/ /\ id = arg[p]
                   /\ f \in PatchFields
                   /\ f \in DOMAIN Val(data[p])
                   /\ ~IsNone(Val(data[p])[f])

C10_UpdateFrame == [][C10_UpdateStep]_vars

\* C11: in every interleaving of create_image, update_image, record_download
\* and delete_image, the download counter of every record is a natural number,
\* and from one state to the next, while the record exists, the counter does
\* not decrease and filename, hd_url and thumbnail_url stay the same.
C11_RecordStep ==
  \A id \in DOMAIN images \cap DOMAIN images' :
    /\ images'[id].downloads >= images[id].downloads
    /\ images'[id].filename = images[id].filename
    /\ images'[id].hd_url = images[id].hd_url
    /\ images'[id].thumbnail_url = images[id].thumbnail_url

C11_CounterNat == \A id \in DOMAIN images : images[id].downloads \in Nat

C11_MonotoneCounter == [](C11_CounterNat) /\ [][C11_RecordStep]_vars

\* The tags of a document, and of a filter, as a set.
TagSet(tags) == {tags[i] : i \in DOMAIN tags}

\* The records a listing with the parameters d must consider: with a non-empty
\* tags filter those whose tag set contains every listed tag, with a featured
\* filter those whose flag equals it.
Wanted(d) ==
  {i \in DOMAIN images :
     /\ (~IsNone(d.tags) /\ Val(d.tags) # <<>>) => TagSet(Val(d.tags)) \subseteq TagSet(images[i].tags)
     /\ ~IsNone(d.featured) => images[i].is_featured = Val(d.featured)}

Listed(p) == op[p] = "get_images" /\ pc[p] = "done" /\ result[p] = "ok"

\* C12: every record that get_images returns for a non-empty tags filter has
\* every listed tag among its tags, and for a featured filter has the flag
\* equal to the filter; a record with only some of the listed tags is not
\* returned.
C12_FilteredListing ==
  \A p \in Procs :
    Listed(p) =>
      LET d == Val(data[p])
          got == Val(ret[p]).images IN
      \A k \in DOMAIN got :
        /\ got[k] \in DOMAIN images
        /\ (~IsNone(d.tags) /\ Val(d.tags) # <<>>)
             => \A t \in TagSet(Val(d.tags)) : t \in TagSet(images[got[k]].tags)
        /\ ~IsNone(d.featured) => images[got[k]].is_featured = Val(d.featured)

C12_Witness ==
  \E p \in Procs :
    /\ Listed(p)
    /\ Val(data[p]).tags = Some(<<"a", "b">>)
    /\ Val(data[p]).featured = Some(TRUE)
    /\ Val(ret[p]).images # <<>>
    /\ \E i \in DOMAIN images :
         /\ images[i].tags = <<"a">>
         /\ images[i].is_featured
         /\ \A k \in DOMAIN Val(ret[p]).images : Val(ret[p]).images[k] # i

\* C13: the k-th record that get_images returns is the filter-matching record
\* with exactly skip + k - 1 filter-matching records created after it; the
\* listing has limit records, or as many as remain after skip; and the total
\* is the number of filter-matching records whatever skip and limit are.
C13_Pagination ==
  \A p \in Procs :
    Listed(p) =>
      LET d == Val(data[p])
          got == Val(ret[p]).images
          M == Wanted(d)
          rest == IF Cardinality(M) > d.skip THEN Cardinality(M) - d.skip ELSE 0 IN
      /\ Len(got) = (IF rest < d.limit THEN rest ELSE d.limit)
      /\ \A k \in DOMAIN got :
           /\ got[k] \in M
           /\ Cardinality({j \in M : images[j].created_at > images[got[k]].created_at})
                = d.skip + k - 1
      /\ Val(ret[p]).total = Cardinality(M)

\* 2 featured images and 1 that is not; skip=0, limit=1, featured=true.
C13_Witness ==
  \E p \in Procs :
    /\ Listed(p)
    /\ Cardinality({i \in DOMAIN images : images[i].is_featured}) = 2
    /\ Cardinality({i \in DOMAIN images : ~images[i].is_featured}) = 1
    /\ Val(data[p]).skip = 0 /\ Val(data[p]).limit = 1
    /\ Val(data[p]).featured = Some(TRUE) /\ IsNone(Val(data[p]).tags)
    /\ Len(Val(ret[p]).images) = 1
    /\ images[Val(ret[p]).images[1]].is_featured
    /\ Val(ret[p]).total = 2

C13_WitnessSkip ==
  \E p \in Procs :
    /\ Listed(p)
    /\ Val(data[p]).skip = 1 /\ Val(data[p]).limit = 2
    /\ Len(Val(ret[p]).images) = 2
    /\ Val(ret[p]).total = 3

\* The counters of the records in the store, added up.
RECURSIVE CounterSum(_)
CounterSum(n) ==
  IF n = 0 THEN 0
  ELSE CounterSum(n - 1) + (IF n \in DOMAIN images THEN images[n].downloads ELSE 0)

\* C14: get_total_downloads returns the sum of the download counters of the
\* records in the images collection, 0 for an empty collection; the step that
\* deletes a record takes its counter off that sum and leaves db.downloads as
\* it was.
C14_ReturnsSum ==
  \A p \in Procs :
    (op[p] = "get_total_downloads" /\ pc[p] = "done" /\ result[p] = "ok")
      => /\ Val(ret[p]) = CounterSum(nextId - 1)
         /\ DOMAIN images = {} => Val(ret[p]) = 0

C14_DeleteStep ==
  \A id \in DOMAIN images \ DOMAIN images' :
    /\ GetTotalDownloads(images') = GetTotalDownloads(images) - images[id].downloads
    /\ downloads' = downloads

C14_TotalDownloads == [](C14_ReturnsSum) /\ [][C14_DeleteStep]_vars

C14_Witness ==
  \E p \in Procs :
    /\ op[p] = "get_total_downloads" /\ pc[p] = "done" /\ result[p] = "ok"
    /\ Val(ret[p]) = 0
    /\ DeletedIds # {}
    /\ BagCardinality(downloads) = 1

C14_WitnessSum ==
  \E p \in Procs :
    /\ op[p] = "get_total_downloads" /\ pc[p] = "done" /\ result[p] = "ok"
    /\ Val(ret[p]) = 1
    /\ Cardinality(DOMAIN images) = 2

CountOps == {"count_endpoint", "get_image_downloads"}

\* C15: a count lookup of a well-formed id, served by a database that answers,
\* returns the stored counter of the record when there is one and 0, not
\* NotFound, when there is none, through the endpoint and through
\* DownloadService.get_image_downloads alike.
C15_LenientCount ==
  \A p \in Procs :
    (op[p] \in CountOps /\ pc[p] = "done" /\ IsValidObjectId(arg[p]) /\ ~fault[p])
      => /\ result[p] = "ok"
         /\ ret[p] = Some(IF arg[p] \in DOMAIN images THEN images[arg[p]].downloads ELSE 0)

\* C16: a request ends with NotFound only when the database answered its
\* record lookup and held no record of the id; when the database fails the
\* lookup of delete_image, update_image or the download endpoint, the request
\* does not end with NotFound (it ends with MetadataStoreFailure).
C16_KindsPropagate ==
  \A p \in Procs :
    (pc[p] = "done" /\ result[p] = "NotFound")
      => /\ ~fault[p]
         /\ arg[p] \notin DOMAIN images

\* C17: create_image on bytes that cannot be decoded ends with
\* ThumbnailFailure, not StorageFailure, with no thumbnail blob written and no
\* record inserted for the upload.
C17_ThumbnailFailure ==
  \A p \in Procs :
    (op[p] = "create_image" /\ pc[p] = "done" /\ ~IsNone(storage_data[p])
       /\ ~Val(data[p]).file.decodable /\ ~fault[p])
      => /\ result[p] = "ThumbnailFailure"
         /\ IsNone(thumbnail_url[p])
         /\ <<"thumb_", Val(storage_data[p]).filename>> \notin thumbBucket
         /\ \A id \in DOMAIN images : images[id].filename # Val(storage_data[p]).filename

\* C18: for an image of width w and height h, the thumbnailer with bounds
\* 200 x 200 gives an image of the same size when 200/w >= 1 and 200/h >= 1,
\* and otherwise of size floor(w * scale) x floor(h * scale) for
\* scale = min(200/w, 200/h); neither side is above 200 and the proportions
\* are those of the input within one pixel.
C18_ThumbnailSize ==
  \A p \in Procs :
    (op[p] = "resize_image" /\ pc[p] = "done")
      => LET w == Val(data[p])[1]
             h == Val(data[p])[2]
             larger == IF w > h THEN w ELSE h
             out == Val(ret[p])
             skew == out[1] * h - out[2] * w IN
         /\ result[p] = "ok"
         /\ out = (IF larger <= 200 THEN <<w, h>>
                   ELSE <<(w * 200) \div larger, (h * 200) \div larger>>)
         /\ out[1] <= 200 /\ out[2] <= 200
         /\ skew <= larger /\ 0 - skew <= larger

\* C19: the response to a request that failed with HTTP 500 is the same
\* whatever the text of the exception that made it fail.
C19_GenericMessage ==
  \A p \in Procs :
    (pc[p] = "done" /\ result[p] \in Failures /\ Val(ret[p]).status_code = 500)
      => \A text \in ErrorTexts : ret[p] = Some(ErrorResponse(result[p], text))

\* C20: the step of a download through the endpoint that inserts the
\* DownloadEvent, and with it ends the download successfully, is taken while
\* the image of the event is in the images collection, whatever delete_image
\* of the same id does in between.
C20_DownloadStep ==
  \A p \in Procs :
    (StepOf(p) /\ op[p] = "download_image" /\ pc[p] = "rd_insert"
       /\ (downloads' # downloads \/ result'[p] = "ok"))
      => arg[p] \in DOMAIN images

C20_NoEventForDeleted == [][C20_DownloadStep]_vars

\* C21: when update_image and delete_image of the same image interleave, in
\* any order of their steps, every record of the collection has all the fields
\* of an Image in every state, a deleted record never comes back, and an
\* update_image that meets the record deleted (at its existence check, at its
\* write or at its re-read) changes nothing in the collection and, once its
\* write has been issued, ends with NotFound.
ImageFields ==
  {"name", "description", "filename", "thumbnail_url", "hd_url", "file_size",
   "content_type", "downloads", "tags", "created_at", "is_featured"}

WellFormed(doc) ==
  /\ ImageFields \subseteq DOMAIN doc
  /\ DOMAIN doc \subseteq ImageFields \cup {"updated_at"}
  /\ doc.downloads \in Nat
  /\ doc.filename \in 1..(nextKey - 1)
  /\ doc.hd_url = PublicUrl(GCS_ORIGINAL_BUCKET, doc.filename)
  /\ doc.thumbnail_url = ThumbnailUrl(doc.filename)
  /\ doc.tags \in Seq({"a", "b"})
  /\ doc.is_featured \in BOOLEAN

C21_RecordsWellFormed ==
  /\ \A id \in DOMAIN images : WellFormed(images[id])
  /\ \A p \in Procs :
       (op[p] = "update_image" /\ pc[p] = "done" /\ result[p] = "ok")
         => ret[p] \in {Some(images[id]) : id \in DOMAIN images \cap {arg[p]}}

C21_UpdateDeleteStep ==
  /\ \A id \in DeletedIds : id \notin DOMAIN images'
  /\ \A p \in Procs :
       (StepOf(p) /\ op'[p] = "update_image" /\ arg'[p] \in DeletedIds)
         => /\ images' = images
            /\ pc[p] = "idle" => result'[p] = "NotFound"
            /\ pc[p] = "update_set" =>
                 \/ pc'[p] = "update_reread"
                 \/ fault'[p] /\ result'[p] = "MetadataStoreFailure"
            /\ pc[p] = "update_reread" => result'[p] = "NotFound"

C21_UpdateDeleteRace == [](C21_RecordsWellFormed) /\ [][C21_UpdateDeleteStep]_vars

\* An update_image passed its existence check, a delete_image of the same
\* image removed the record, the update's write was issued and the database
\* answered its re-read: the update ended with NotFound and the record is gone.
C21_Witness ==
  \E p \in Procs :
    /\ op[p] = "update_image" /\ pc[p] = "done"
    /\ result[p] = "NotFound" /\ ~fault[p]
    /\ arg[p] \in DeletedIds
    /\ ops = 3 /\ clock = 2

\* The write of an update_image is about to land after the record's deletion.
C21_WitnessLateWrite ==
  \E p \in Procs :
    /\ op[p] = "update_image" /\ pc[p] = "update_set"
    /\ arg[p] \in DeletedIds

\* C22: in every reachable state, also in the middle of concurrent downloads
\* and after downloads whose event insert failed, the download counter of
\* every existing record is at least the number of documents of db.downloads
\* that refer to the record.
C22_CounterCoversEvents ==
  \A id \in DOMAIN images : images[id].downloads >= EventsFor(id)

\* C23: after any sequence of create_image and delete_image calls in which
\* any step may fail, whenever no request is in flight, every record of
\* db.images has its original blob in the originals bucket and its thumbnail
\* blob in the thumbnails bucket.
NoneInFlight == \A p \in Procs : pc[p] = "idle"

C23_RecordsHaveBlobs ==
  NoneInFlight =>
    \A id \in DOMAIN images :
      /\ images[id].filename \in origBucket
      /\ ThumbName(images[id].filename) \in thumbBucket

====
